---- MODULE Spec2Model ----
(***************************************************************************)
(* A model of rust-grim (src/src/main.rs): a Wayland screenshot client.    *)
(* The client discovers globals through the registry, learns each output's *)
(* mode, scale and logical position, selects target outputs for an         *)
(* optional region, captures them one after the other through              *)
(* wlr-screencopy, converts each frame to RGBA, composites and crops, and  *)
(* writes screenshot.png.                                                  *)
(*                                                                         *)
(* The compositor is the environment.  The connection is an ordered byte   *)
(* stream, so the events in flight are one FIFO, `wire`; the compositor    *)
(* answers a request at the moment the client sends it, by appending to    *)
(* the FIFO.                                                               *)
(***************************************************************************)
EXTENDS Integers, Sequences, FiniteSets, TLC

\* ------------------------------------------------------------------ bounds
MaxOutputs == 2
MaxDim == 2
MaxScale == 2
MaxRegion == 2
MaxPad == 1
MaxWidth == 2
MaxHeight == 2
MaxScribbles == 2
MaxLen == 8
MaxVersion == 5

\* -------------------------------------------------------- small utilities
Range(s) == {s[i] : i \in 1..Len(s)}

RECURSIVE SumTo(_, _)
SumTo(f, n) == IF n = 0 THEN 0 ELSE f[n] + SumTo(f, n - 1)

SetMin(S) == CHOOSE m \in S : \A k \in S : m <= k
SetMax(S) == CHOOSE m \in S : \A k \in S : m >= k

\* ------------------------------------------------- 32-bit unsigned values
\* A u32 is kept as two 16-bit limbs, so that the value of a negative i32
\* cast with `as u32` (2^32 - k) is represented exactly.
Limb == 2 ^ 16

\* `v as u32` for an i32 v: two's complement reinterpretation.
AsU32(v) == [hi |-> (v \div Limb) % Limb, lo |-> v % Limb]

U32Le(a, b) == a.hi < b.hi \/ (a.hi = b.hi /\ a.lo <= b.lo)

\* u32::min
U32Min(a, b) == IF U32Le(a, b) THEN a ELSE b

\* u32::saturating_sub
SaturatingSub(a, b) ==
    IF U32Le(a, b) THEN AsU32(0)
    ELSE LET borrow == IF a.lo < b.lo THEN 1 ELSE 0
         IN  [hi |-> a.hi - b.hi - borrow, lo |-> (a.lo - b.lo) % Limb]

\* u32 * u32 (the products of the model stay below 2^32, so the wrapping of
\* a release build and the overflow panic of a debug build do not arise).
U32Mul(a, b) ==
    [hi |-> (a.hi * b.lo + a.lo * b.hi + (a.lo * b.lo) \div Limb) % Limb,
     lo |-> (a.lo * b.lo) % Limb]

\* -------------------------------------------------------------- interfaces
IfaceManager == "zwlr_screencopy_manager_v1"
IfaceXdg == "zxdg_output_manager_v1"
IfaceOutput == "wl_output"
IfaceShm == "wl_shm"
IfaceOther == "wl_seat"

\* wl_shm formats a buffer-parameters event may name.  "Unknown" stands for
\* a format code outside the wl_shm::Format enumeration.
Bgr4Formats == {"Argb8888", "Xrgb8888"}
KnownFormats == Bgr4Formats \cup {"Xbgr8888", "Rgb565"}
\* The formats the compositor of the model chooses from.
SentFormats == {"Xrgb8888", "Xbgr8888", "Rgb565", "Unknown"}

\* ------------------------------------------------------------------ state
VARIABLES
    pc,                 \* position of main
    comp,               \* the compositor: what it advertises, its outputs
    late,               \* globals the compositor has yet to advertise
    wire,               \* events in flight, in order
    screencopy_manager, \* AppState.screencopy_manager is Some
    xdg_output_manager, \* AppState.xdg_output_manager is Some
    shm,                \* AppState.shm is Some
    outputs,            \* AppState.outputs
    buffer_done, buffer_file, buffer_format,
    buffer_width, buffer_height, buffer_stride,
    crop_details,       \* main's crop_details
    filtered,           \* target_outputs as the region filter leaves it
    target_outputs,     \* main's target_outputs
    cur,                \* index of the capture loop in target_outputs
    captured_data,      \* main's captured_data
    composite,          \* canvas, placements and crop rectangle
    file,               \* screenshot.png
    exit_status,        \* process exit status
    stderr,             \* diagnostics printed to the error stream
    requests,           \* history: outputs named by capture_output requests
    terminal,           \* history: terminal event that ended the current wait
    binds,              \* history: the registry.bind requests sent
    geometry,           \* args.geometry, where the argument itself is modelled
    buf,                \* main's buf: the bytes read back from the frame's file
    rows,               \* the rows the parallel workers have converted
    tight_buf           \* main's tight_buf, once collected

vars == <<pc, comp, late, wire, screencopy_manager, xdg_output_manager, shm,
          outputs, buffer_done, buffer_file, buffer_format, buffer_width,
          buffer_height, buffer_stride, crop_details, filtered,
          target_outputs, cur, captured_data, composite, file, exit_status,
          stderr, requests, terminal, binds, geometry, buf, rows, tight_buf>>

\* The variables that main's steps from the first round-trip to the save
\* leave alone: the conversion's and the argument string.
convVars == <<buf, rows, tight_buf, geometry>>
appVars == <<screencopy_manager, xdg_output_manager, shm, outputs>>
bufVars == <<buffer_done, buffer_file, buffer_format, buffer_width,
             buffer_height, buffer_stride>>
mainVars == <<crop_details, filtered, target_outputs, cur, captured_data,
              composite, file>>

\* ------------------------------------------------------------ compositor
\* An output of the compositor: logical size lw x lh, integer scale; its
\* current mode is the physical size lw*scale x lh*scale.  Outputs are laid
\* out left to right without gaps, in logical pixels, and are one logical
\* pixel high.
OutputConfigs == [lw : 1..MaxDim, lh : {1}, scale : 1..MaxScale]

LogicalX(i) == SumTo([j \in 1..MaxOutputs + 1 |->
                        IF j <= Len(comp.outs) THEN comp.outs[j].lw ELSE 0],
                     i - 1)
LogicalY(i) == 0
LogicalW(i) == comp.outs[i].lw
LogicalH(i) == comp.outs[i].lh
ModeW(i) == comp.outs[i].lw * comp.outs[i].scale
ModeH(i) == comp.outs[i].lh * comp.outs[i].scale

\* ------------------------------------------------------------------ events
Ev(type, obj, iface, fmt, a, b, c) ==
    [type |-> type, obj |-> obj, iface |-> iface, fmt |-> fmt,
     a |-> a, b |-> b, c |-> c]

\* The versions the compositor of the model advertises its globals with.
AdvertisedVersion(iface) ==
    IF iface = IfaceOutput THEN 4
    ELSE IF iface \in {IfaceManager, IfaceXdg} THEN 3
    ELSE 1

VersionedGlobalEv(iface, obj, version) == Ev("global", obj, iface, "", version, 0, 0)
GlobalEv(iface, obj) == VersionedGlobalEv(iface, obj, AdvertisedVersion(iface))
DoneEv == Ev("done", 0, "", "", 0, 0, 0)
ModeEv(i, current) == Ev("mode", i, "", "", ModeW(i), ModeH(i), current)
ScaleEv(i) == Ev("scale", i, "", "", comp.outs[i].scale, 0, 0)
LogicalPositionEv(i) == Ev("logical_position", i, "", "", LogicalX(i), LogicalY(i), 0)
LogicalSizeEv(i) == Ev("logical_size", i, "", "", LogicalW(i), LogicalH(i), 0)
BufferEv(fmt, w, h, stride) == Ev("buffer", 0, "", fmt, w, h, stride)
ReadyEv == Ev("ready", 0, "", "", 0, 0, 0)
FailedEv == Ev("failed", 0, "", "", 0, 0, 0)

\* What the compositor sends when an output is bound, when its xdg_output
\* is created, and when a sync request arrives.
OnBindOutput(i) == <<ModeEv(i, 1), ScaleEv(i)>>
OnGetXdgOutput(i) == <<LogicalPositionEv(i), LogicalSizeEv(i)>>
OnSync == <<DoneEv>>

\* The answers to capture_output: the buffer parameters of the output's
\* frame (its mode size, any row padding, any format), or failure, or, from
\* a compositor that stops responding, nothing.
BytesPerPixel(f) == IF f = "Rgb565" THEN 2 ELSE 4

CaptureAnswers(i) ==
    {<<>>, <<FailedEv>>} \cup
    {<<BufferEv(f, ModeW(i), ModeH(i), BytesPerPixel(f) * ModeW(i) + 4 * p)>> :
        f \in SentFormats, p \in 0..MaxPad}
\* The answers to the copy request.
CopyAnswers == {<<>>, <<ReadyEv>>, <<FailedEv>>}

\* ------------------------------------------------------------ AppState
NoOutputInfo == [output |-> 0, xdg_output |-> FALSE, x |-> 0, y |-> 0,
                 width |-> 0, height |-> 0, scale |-> 1]
NoCrop == [some |-> FALSE, x |-> 0, y |-> 0, w |-> 0, h |-> 0]
\* The image handed to the encoder: a captured frame as converted
\* ("frame", with its index in captured_data), the canvas, or a sub-image
\* of the canvas.
ImageOf(kind, index) == [kind |-> kind, index |-> index]

NoComposite == [made |-> FALSE, fast |-> FALSE, image |-> ImageOf("none", 0),
                width |-> AsU32(0), height |-> AsU32(0),
                min_x |-> 0, min_y |-> 0, scale |-> 1,
                placed |-> <<>>, cropped |-> FALSE,
                crop_x |-> AsU32(0), crop_y |-> AsU32(0),
                crop_w |-> AsU32(0), crop_h |-> AsU32(0),
                out_w |-> AsU32(0), out_h |-> AsU32(0)]
NoFile == [created |-> FALSE, written |-> FALSE, image |-> ImageOf("none", 0),
           width |-> AsU32(0), height |-> AsU32(0)]

\* The globals the compositor advertises when the registry is requested.
InitialGlobals(c, l) ==
    LET n == Len(c.outs) - (IF l = IfaceOutput THEN 1 ELSE 0)
    IN  (IF c.shm THEN <<GlobalEv(IfaceShm, 0)>> ELSE <<>>)
        \o <<GlobalEv(IfaceOther, 0)>>
        \o [i \in 1..n |-> GlobalEv(IfaceOutput, i)]
        \o (IF c.xdg /\ l # IfaceXdg THEN <<GlobalEv(IfaceXdg, 0)>> ELSE <<>>)
        \o (IF c.manager THEN <<GlobalEv(IfaceManager, 0)>> ELSE <<>>)

LateGlobals(c, l) ==
    IF l = IfaceOutput THEN <<GlobalEv(IfaceOutput, Len(c.outs))>>
    ELSE IF l = IfaceXdg THEN <<GlobalEv(IfaceXdg, 0)>>
    ELSE <<>>

\* late: the global, if any, that appears only after the registry was
\* requested (the last output, or the xdg-output manager).
Compositors ==
    {c \in [manager : BOOLEAN, xdg : BOOLEAN, shm : BOOLEAN,
            outs : UNION {[1..n -> OutputConfigs] : n \in 0..MaxOutputs},
            late : {"none", IfaceOutput, IfaceXdg}] :
        /\ c.late = IfaceOutput => Len(c.outs) > 0
        /\ c.late = IfaceXdg => c.xdg}

NoRows == [done |-> {}, data |-> <<>>]

\* args.geometry is None, or the argument was given: Some(str), a string of
\* characters.
NoArg == [given |-> FALSE, str |-> <<>>]

\* main, lines 290-311: the state after construction, with the registry
\* requested and the first round-trip's sync sent.
Init ==
    \E c \in Compositors :
        /\ comp = c
        /\ late = LateGlobals(c, c.late)
        /\ wire = InitialGlobals(c, c.late) \o <<DoneEv>>
        /\ buf = <<>>
        /\ rows = NoRows
        /\ tight_buf = <<>>
        /\ pc = "roundtrip1"
        /\ screencopy_manager = FALSE
        /\ xdg_output_manager = FALSE
        /\ shm = FALSE
        /\ outputs = <<>>
        /\ buffer_done = FALSE
        /\ buffer_file = FALSE
        /\ buffer_format = "Xrgb8888"
        /\ buffer_width = 0
        /\ buffer_height = 0
        /\ buffer_stride = 0
        /\ crop_details = NoCrop
        /\ filtered = <<>>
        /\ target_outputs = <<>>
        /\ cur = 0
        /\ captured_data = <<>>
        /\ composite = NoComposite
        /\ file = NoFile
        /\ exit_status = "running"
        /\ stderr = {}
        /\ requests = <<>>
        /\ terminal = "none"
        /\ binds = <<>>
        /\ geometry = NoArg


\* ---------------------------------------------------------------- panics
\* A panic (unwrap/expect on None or Err, a failed assertion, an index out
\* of bounds) prints a diagnostic and ends the process with a failure
\* status.
Panic(msg) ==
    /\ pc' = "panicked"
    /\ exit_status' = "failure"
    /\ stderr' = stderr \cup {msg}

\* ------------------------------------------------------- event handlers
\* Dispatch<WlRegistry>::event
NewOutputInfo(i) == [NoOutputInfo EXCEPT !.output = i]

\* The versions written in the handler: lines 248, 251, 254, 266.
ManagerBindVersion == 3
XdgMaxVersion == 3
OutputMaxVersion == 4
ShmBindVersion == 1

\* u32::min
Min(a, b) == IF a <= b THEN a ELSE b

\* registry.bind(name, version, ..): the request as sent.
Bind(e, version) == [iface |-> e.iface, advertised |-> e.a, requested |-> version]

RegistryGlobal(e) ==
    /\ e.type = "global"
    /\ \/ /\ e.iface = IfaceManager
          /\ screencopy_manager' = TRUE
          /\ binds' = Append(binds, Bind(e, ManagerBindVersion))
          /\ wire' = Tail(wire)
          /\ UNCHANGED <<xdg_output_manager, shm, outputs>>
       \/ /\ e.iface = IfaceXdg
          /\ xdg_output_manager' = TRUE
          /\ binds' = Append(binds, Bind(e, Min(e.a, XdgMaxVersion)))
          /\ wire' = Tail(wire)
          /\ UNCHANGED <<screencopy_manager, shm, outputs>>
       \/ /\ e.iface = IfaceOutput
          /\ outputs' = Append(outputs, NewOutputInfo(e.obj))
          /\ binds' = Append(binds, Bind(e, Min(e.a, OutputMaxVersion)))
          /\ wire' = Tail(wire) \o OnBindOutput(e.obj)
          /\ UNCHANGED <<screencopy_manager, xdg_output_manager, shm>>
       \/ /\ e.iface = IfaceShm
          /\ shm' = TRUE
          /\ binds' = Append(binds, Bind(e, ShmBindVersion))
          /\ wire' = Tail(wire)
          /\ UNCHANGED <<screencopy_manager, xdg_output_manager, outputs>>
       \/ /\ e.iface \notin {IfaceManager, IfaceXdg, IfaceOutput, IfaceShm}
          /\ wire' = Tail(wire)
          /\ UNCHANGED <<appVars, binds>>
    /\ UNCHANGED <<pc, bufVars, mainVars, exit_status, stderr, requests, terminal>>

\* OutputMode taking every mode, current or not.
OutputModeAny(info, e) == [info EXCEPT !.width = e.a, !.height = e.b]

\* Dispatch<WlOutput>::event.  The flags of a mode are a bit set: current
\* is bit 0, preferred bit 1.
OutputMode(info, e) ==
    IF e.c % 2 = 1 THEN [info EXCEPT !.width = e.a, !.height = e.b] ELSE info
OutputScale(info, e) == [info EXCEPT !.scale = e.a]

\* iter_mut().find(): the first of the entries that satisfy the test (given
\* by their indices), 0 if there is none.
FindFirst(matching) ==
    IF matching # {} THEN SetMin(matching) ELSE 0

OutputEvent(e) ==
    /\ e.type \in {"mode", "scale"}
    /\ LET k == FindFirst({i \in 1..Len(outputs) : outputs[i].output = e.obj})
       IN  outputs' =
             IF k = 0 THEN outputs
             ELSE IF e.type = "mode"
                  THEN [outputs EXCEPT ![k] = OutputMode(outputs[k], e)]
                  ELSE [outputs EXCEPT ![k] = OutputScale(outputs[k], e)]
    /\ wire' = Tail(wire)
    /\ UNCHANGED <<pc, screencopy_manager, xdg_output_manager, shm, bufVars,
                   mainVars, exit_status, stderr, requests, terminal, binds>>

\* Dispatch<ZxdgOutputV1>::event
XdgLogicalPosition(info, e) == [info EXCEPT !.x = e.a, !.y = e.b]

XdgOutputEvent(e) ==
    /\ e.type \in {"logical_position", "logical_size"}
    /\ LET k == FindFirst({i \in 1..Len(outputs) :
                              outputs[i].xdg_output /\ outputs[i].output = e.obj})
       IN  outputs' =
             IF k # 0 /\ e.type = "logical_position"
             THEN [outputs EXCEPT ![k] = XdgLogicalPosition(outputs[k], e)]
             ELSE outputs
    /\ wire' = Tail(wire)
    /\ UNCHANGED <<pc, screencopy_manager, xdg_output_manager, shm, bufVars,
                   mainVars, exit_status, stderr, requests, terminal, binds>>

\* Dispatch<ZwlrScreencopyFrameV1>::event, FrameEvent::Buffer
FrameBuffer(e) ==
    /\ e.type = "buffer"
    /\ \/ /\ e.fmt \notin KnownFormats      \* into_result() is Err: unwrap panics
          /\ Panic("unwrap on Err: unknown wl_shm format")
          /\ wire' = Tail(wire)
          /\ UNCHANGED bufVars
       \/ /\ e.fmt \in KnownFormats
          /\ buffer_format' = e.fmt
          /\ buffer_width' = e.a
          /\ buffer_height' = e.b
          /\ buffer_stride' = e.c
          /\ buffer_file' = TRUE
          /\ \E answer \in CopyAnswers : wire' = Tail(wire) \o answer
          /\ UNCHANGED <<pc, exit_status, stderr, buffer_done>>
    /\ UNCHANGED <<appVars, mainVars, requests, terminal, binds>>

\* FrameTerminal with Failed printing its message only.
FrameTerminalReadyOnly(e) ==
    /\ e.type \in {"ready", "failed"}
    /\ buffer_done' = (buffer_done \/ e.type = "ready")
    /\ terminal' = e.type
    /\ stderr' = IF e.type = "failed" THEN stderr \cup {"capture failed"} ELSE stderr
    /\ wire' = Tail(wire)
    /\ UNCHANGED <<pc, appVars, buffer_file, buffer_format, buffer_width,
                   buffer_height, buffer_stride, mainVars, exit_status, requests,
                   binds>>

\* FrameEvent::Ready and FrameEvent::Failed
FrameTerminal(e) ==
    /\ e.type \in {"ready", "failed"}
    /\ buffer_done' = TRUE
    /\ terminal' = e.type
    /\ stderr' = IF e.type = "failed" THEN stderr \cup {"capture failed"} ELSE stderr
    /\ wire' = Tail(wire)
    /\ UNCHANGED <<pc, appVars, buffer_file, buffer_format, buffer_width,
                   buffer_height, buffer_stride, mainVars, exit_status, requests,
                   binds>>

\* The sync callback that ends a round-trip (lines 311, 322, 323); the next
\* round-trip's sync is sent at once when one follows.
RoundtripDone(e) ==
    /\ e.type = "done"
    /\ \/ /\ pc = "roundtrip1"
          /\ pc' = "get_xdg"
          /\ wire' = Tail(wire)
       \/ /\ pc = "roundtrip2"
          /\ pc' = "roundtrip3"
          /\ wire' = Tail(wire) \o OnSync
       \/ /\ pc = "roundtrip3"
          /\ pc' = "expect"
          /\ wire' = Tail(wire)
    /\ UNCHANGED <<appVars, bufVars, mainVars, exit_status, stderr, requests,
                   terminal, binds>>

\* event_queue.roundtrip / blocking_dispatch: the next event in flight is
\* handed to its handler.
Dispatching ==
    \/ pc \in {"roundtrip1", "roundtrip2", "roundtrip3"}
    \/ pc = "wait" /\ ~buffer_done

Dispatch ==
    /\ Dispatching
    /\ wire # <<>>
    /\ LET e == Head(wire)
       IN  \/ RegistryGlobal(e)
           \/ OutputEvent(e)
           \/ XdgOutputEvent(e)
           \/ FrameBuffer(e)
           \/ FrameTerminal(e)
           \/ RoundtripDone(e)
    /\ UNCHANGED <<comp, late>>
    /\ UNCHANGED convVars

\* The compositor advertises a global that appeared after the registry was
\* requested.
AdvertiseLate ==
    /\ late # <<>>
    /\ pc \in {"get_xdg", "roundtrip2", "roundtrip3"}
    /\ wire' = Append(wire, Head(late))
    /\ late' = Tail(late)
    /\ UNCHANGED <<pc, comp, appVars, bufVars, mainVars, exit_status, stderr,
                   requests, terminal>>
    /\ UNCHANGED <<convVars, binds>>

\* ------------------------------------------------------------------- main
\* The compositor's answers to the get_xdg_output requests of lines 314-319.
RECURSIVE XdgAnswers(_)
XdgAnswers(infos) ==
    IF infos = <<>> THEN <<>>
    ELSE (IF Head(infos).xdg_output THEN <<>>
          ELSE OnGetXdgOutput(Head(infos).output))
         \o XdgAnswers(Tail(infos))

\* lines 313-322: request the xdg_output of every output that has none,
\* then start the second round-trip.
GetXdgOutputs ==
    /\ pc = "get_xdg"
    /\ pc' = "roundtrip2"
    /\ IF xdg_output_manager
       THEN /\ outputs' = [k \in 1..Len(outputs) |->
                              [outputs[k] EXCEPT !.xdg_output = TRUE]]
            /\ wire' = wire \o XdgAnswers(outputs) \o OnSync
       ELSE /\ outputs' = outputs
            /\ wire' = wire \o OnSync
    /\ UNCHANGED <<comp, late, screencopy_manager, xdg_output_manager, shm,
                   bufVars, mainVars, exit_status, stderr, requests, terminal>>
    /\ UNCHANGED <<convVars, binds>>

\* lines 327-332: the screencopy manager and wl_shm are required.
Expect ==
    /\ pc = "expect"
    /\ IF ~screencopy_manager
       THEN Panic("Compositor does not support zwlr_screencopy_manager_v1")
       ELSE IF ~shm
       THEN Panic("No wl_shm found")
       ELSE pc' = "select" /\ UNCHANGED <<exit_status, stderr>>
    /\ UNCHANGED <<comp, late, wire, appVars, bufVars, mainVars, requests, terminal>>
    /\ UNCHANGED <<convVars, binds>>


\* The results parse_geometry can hand to main: None, or Some((x, y, w, h)).
RegionXs == (0 - 1)..(MaxDim * MaxScale + 1)
RegionYs == (0 - 1)..1
Geometries ==
    {NoCrop} \cup
    [some : {TRUE}, x : RegionXs, y : RegionYs, w : 0..MaxRegion, h : {1}]

\* lines 348-359: the filter's test of one output against the region.
Intersects(info, g) ==
    LET ox == info.x
        oy == info.y
        ow == info.width
        oh == info.height
        sx == g.x
        sy == g.y
        sw == g.w
        sh == g.h
    IN  sx < ox + ow /\ sx + sw > ox /\ sy < oy + oh /\ sy + sh > oy

\* lines 345-361: target_outputs as the filter collects it.
FilterOutputs(infos, g) ==
    LET Test(info) == Intersects(info, g)
    IN  SelectSeq(infos, Test)

\* lines 334-370, for the region g that the argument gave (NoCrop when the
\* argument is absent or does not parse).
SelectWith(g) ==
    /\ pc = "select"
    /\ crop_details' = g
    /\ filtered' = IF g.some THEN FilterOutputs(outputs, g) ELSE <<>>
    /\ pc' = "fallback"
    /\ UNCHANGED <<comp, late, wire, appVars, bufVars, target_outputs, cur,
                   captured_data, composite, file, exit_status, stderr,
                   requests, terminal>>
    /\ UNCHANGED <<convVars, binds>>

\* lines 334-370, for any region parse_geometry can hand to main.
Select == \E g \in Geometries : SelectWith(g)

\* WithFallback with the fallback taking the last registered output.
WithFallbackLast(targets, infos) ==
    IF targets = <<>>
    THEN (IF infos # <<>> THEN <<infos[Len(infos)]>> ELSE <<>>)
    ELSE targets

\* lines 372-376
WithFallback(targets, infos) ==
    IF targets = <<>>
    THEN (IF infos # <<>> THEN <<infos[1]>> ELSE <<>>)
    ELSE targets

\* lines 372-378 and 530-533
Fallback ==
    /\ pc = "fallback"
    /\ target_outputs' = WithFallback(filtered, outputs)
    /\ IF target_outputs' # <<>>
       THEN /\ pc' = "capture"
            /\ cur' = 1
            /\ UNCHANGED <<exit_status, stderr>>
       ELSE /\ pc' = "exited"
            /\ exit_status' = "success"
            /\ stderr' = stderr \cup {"No output found."}
            /\ cur' = cur
    /\ UNCHANGED <<comp, late, wire, appVars, bufVars, crop_details, filtered,
                   captured_data, composite, file, requests, terminal>>
    /\ UNCHANGED <<convVars, binds>>

\* CaptureRequest without the reset of lines 382-383.
CaptureRequestNoReset ==
    /\ pc = "capture"
    /\ terminal' = "none"
    /\ requests' = Append(requests, target_outputs[cur].output)
    /\ \E answer \in CaptureAnswers(target_outputs[cur].output) :
         wire' = wire \o answer
    /\ pc' = "wait"
    /\ UNCHANGED <<comp, late, appVars, bufVars, mainVars, exit_status, stderr>>
    /\ UNCHANGED <<convVars, binds>>

\* lines 381-386: reset the session and request the capture of the
\* current target.
CaptureRequest ==
    /\ pc = "capture"
    /\ buffer_done' = FALSE
    /\ buffer_file' = FALSE
    /\ terminal' = "none"
    /\ requests' = Append(requests, target_outputs[cur].output)
    /\ \E answer \in CaptureAnswers(target_outputs[cur].output) :
         wire' = wire \o answer
    /\ pc' = "wait"
    /\ UNCHANGED <<comp, late, appVars, buffer_format, buffer_width,
                   buffer_height, buffer_stride, mainVars, exit_status, stderr>>
    /\ UNCHANGED <<convVars, binds>>

\* lines 402-418: buf holds height * stride bytes; the largest index read is
\* that of the red byte of the last pixel of the last row.
ConversionPanics(w, h, stride) ==
    /\ w > 0
    /\ h > 0
    /\ (h - 1) * stride + 4 * (w - 1) + 2 >= h * stride

\* lines 421-427: the image pushed for the current target.
CapturedImage(info) ==
    [info |-> info, width |-> buffer_width, height |-> buffer_height,
     format |-> buffer_format, terminal |-> terminal]

\* lines 393-428: the frame left by the capture, if any, becomes an image.
Captured(data, info) ==
    IF buffer_file THEN Append(data, CapturedImage(info)) ELSE data

\* The wait loop left at once, whatever the session says.
WaitOverAtOnce(done) == TRUE

\* line 388, while !app_state.buffer_done: the wait loop is left when the
\* session is done.
WaitOver(done) == done

\* lines 388-429: the wait is over; convert, and go to the next target.
ProcessFrame ==
    /\ pc = "wait"
    /\ WaitOver(buffer_done)
    /\ buffer_file' = FALSE
    /\ IF buffer_file /\ ConversionPanics(buffer_width, buffer_height, buffer_stride)
       THEN /\ Panic("index out of bounds")
            /\ UNCHANGED <<captured_data, cur>>
       ELSE /\ captured_data' = Captured(captured_data, target_outputs[cur])
            /\ IF cur < Len(target_outputs)
               THEN pc' = "capture" /\ cur' = cur + 1
               ELSE pc' = "compose" /\ cur' = cur
            /\ UNCHANGED <<exit_status, stderr>>
    /\ UNCHANGED <<comp, late, wire, appVars, buffer_done, buffer_format,
                   buffer_width, buffer_height, buffer_stride, crop_details,
                   filtered, target_outputs, composite, file, requests, terminal>>
    /\ UNCHANGED <<convVars, binds>>


\* --------------------------------------------------------- compositing
\* lines 449-452: the bounding box of the target outputs.
MinX(targets) == SetMin({targets[i].x : i \in 1..Len(targets)})
MinY(targets) == SetMin({targets[i].y : i \in 1..Len(targets)})
MaxX(targets) == SetMax({targets[i].x + targets[i].width : i \in 1..Len(targets)})
MaxY(targets) == SetMax({targets[i].y + targets[i].height : i \in 1..Len(targets)})

\* line 455
CompositeScale(targets) == SetMax({targets[i].scale : i \in 1..Len(targets)})

\* lines 457-458
CompositeWidth(targets) ==
    AsU32((MaxX(targets) - MinX(targets)) * CompositeScale(targets))
CompositeHeight(targets) ==
    AsU32((MaxY(targets) - MinY(targets)) * CompositeScale(targets))

\* (n as f64 * num as f64 / den as f64).round() as u32, lines 473-474: round
\* half away from zero, of a non-negative quotient.
RoundScaled(n, num, den) == (2 * n * num + den) \div (2 * den)

\* NearestIndex repeating the source instead of stretching it.
NearestIndexTiled(i, src, dst) == i % src

\* lines 493-497, ResizeAlg::Nearest of fast_image_resize: destination
\* index i of dst takes the source index under its centre,
\* floor((i + 0.5) * src / dst).
NearestIndex(i, src, dst) == ((2 * i + 1) * src) \div (2 * dst)

\* lines 471-502: for every pixel of the image that is overlaid, the pixel
\* of the captured image it is a copy of.
Resample(w, h, new_width, new_height, resized) ==
    [p \in (0..(new_width - 1)) \X (0..(new_height - 1)) |->
        IF resized
        THEN <<NearestIndex(p[1], w, new_width), NearestIndex(p[2], h, new_height)>>
        ELSE p]

\* lines 467-505: where an image goes on the canvas, and at which size.
Placement(img, targets) ==
    LET cs == CompositeScale(targets)
        resized == img.info.scale # cs
        new_width == IF resized THEN RoundScaled(img.width, cs, img.info.scale)
                     ELSE img.width
        new_height == IF resized THEN RoundScaled(img.height, cs, img.info.scale)
                      ELSE img.height
    IN  [output |-> img.info.output,
         source |-> Resample(img.width, img.height, new_width, new_height, resized),
         dest_x |-> (img.info.x - MinX(targets)) * cs,
         dest_y |-> (img.info.y - MinY(targets)) * cs,
         width  |-> IF img.info.scale # cs
                    THEN RoundScaled(img.width, cs, img.info.scale)
                    ELSE img.width,
         height |-> IF img.info.scale # cs
                    THEN RoundScaled(img.height, cs, img.info.scale)
                    ELSE img.height]

\* lines 511-517: the crop rectangle in canvas pixels.
CropOffset(g, lo, cs) == AsU32((g - lo) * cs)
CropExtent(len, cs, dim, off) ==
    U32Min(U32Mul(AsU32(len), AsU32(cs)), SaturatingSub(dim, off))

\* image's sub_image(x, y, w, h) requires x + w <= width and y + h <= height.
SubImageInBounds(c) ==
    /\ U32Le(c.crop_x, c.width)
    /\ U32Le(c.crop_w, SaturatingSub(c.width, c.crop_x))
    /\ U32Le(c.crop_y, c.height)
    /\ U32Le(c.crop_h, SaturatingSub(c.height, c.crop_y))

\* The fast path never taken.
FastPathNever(data, crop) == FALSE

\* lines 441-443: one image and no crop: the image goes to the encoder as is.
FastPath(data, crop) == Len(data) = 1 /\ ~crop.some

FastComposite(data) ==
    [NoComposite EXCEPT !.made = TRUE, !.fast = TRUE,
                        !.image = ImageOf("frame", 1),
                        !.out_w = AsU32(data[1].width),
                        !.out_h = AsU32(data[1].height)]

\* lines 445-526
GeneralComposite(data, targets, crop) ==
    LET cs == CompositeScale(targets)
        cw == CompositeWidth(targets)
        ch == CompositeHeight(targets)
        cx == CropOffset(crop.x, MinX(targets), cs)
        cy == CropOffset(crop.y, MinY(targets), cs)
        fw == CropExtent(crop.w, cs, cw, cx)
        fh == CropExtent(crop.h, cs, ch, cy)
    IN  [made |-> TRUE, fast |-> FALSE, width |-> cw, height |-> ch,
         image |-> ImageOf(IF crop.some THEN "sub_image" ELSE "canvas", 0),
         min_x |-> MinX(targets), min_y |-> MinY(targets), scale |-> cs,
         placed |-> [k \in 1..Len(data) |-> Placement(data[k], targets)],
         cropped |-> crop.some,
         crop_x |-> IF crop.some THEN cx ELSE AsU32(0),
         crop_y |-> IF crop.some THEN cy ELSE AsU32(0),
         crop_w |-> IF crop.some THEN fw ELSE AsU32(0),
         crop_h |-> IF crop.some THEN fh ELSE AsU32(0),
         out_w |-> IF crop.some THEN fw ELSE cw,
         out_h |-> IF crop.some THEN fh ELSE ch]

\* lines 431-521: nothing captured: main returns; else the image for the
\* encoder is made.  A crop rectangle outside the canvas fails sub_image's
\* assertion in the image releases that have one.
Compose ==
    /\ pc = "compose"
    /\ \/ /\ captured_data = <<>>
          /\ pc' = "exited"
          /\ exit_status' = "success"
          /\ UNCHANGED <<composite, stderr>>
       \/ /\ captured_data # <<>>
          /\ FastPath(captured_data, crop_details)
          /\ composite' = FastComposite(captured_data)
          /\ pc' = "save"
          /\ UNCHANGED <<exit_status, stderr>>
       \/ /\ captured_data # <<>>
          /\ ~FastPath(captured_data, crop_details)
          /\ composite' = GeneralComposite(captured_data, target_outputs, crop_details)
          /\ \/ /\ pc' = "save"
                /\ UNCHANGED <<exit_status, stderr>>
             \/ /\ composite'.cropped
                /\ ~SubImageInBounds(composite')
                /\ Panic("assertion failed: sub_image out of bounds")
    /\ UNCHANGED <<comp, late, wire, appVars, bufVars, crop_details, filtered,
                   target_outputs, cur, captured_data, file, requests, terminal>>
    /\ UNCHANGED <<convVars, binds>>

ZeroArea(w, h) == w = AsU32(0) \/ h = AsU32(0)

\* save_as_png_fast, lines 274-287, called at 443, 522 and 525 and
\* unwrapped: the file is created first; png refuses a zero width or height
\* in the releases that check it.
Save ==
    /\ pc = "save"
    /\ \/ /\ file' = [created |-> TRUE, written |-> TRUE,
                      image |-> composite.image,
                      width |-> composite.out_w, height |-> composite.out_h]
          /\ pc' = "exited"
          /\ exit_status' = "success"
          /\ UNCHANGED stderr
       \/ /\ ZeroArea(composite.out_w, composite.out_h)
          /\ file' = [NoFile EXCEPT !.created = TRUE]
          /\ Panic("png encoding error: zero width or height")
    /\ UNCHANGED <<comp, late, wire, appVars, bufVars, crop_details, filtered,
                   target_outputs, cur, captured_data, composite, requests,
                   terminal>>
    /\ UNCHANGED <<convVars, binds>>

\* ---------------------------------------------------------- specification
Main ==
    \/ Dispatch
    \/ AdvertiseLate
    \/ GetXdgOutputs
    \/ Expect
    \/ Select
    \/ Fallback
    \/ CaptureRequest
    \/ ProcessFrame
    \/ Compose
    \/ Save

Next == Main

Spec == Init /\ [][Next]_vars

\* The process keeps running and the events in flight are delivered: a
\* step that can be taken is taken.
\* Whether a run ends does not depend on the outputs' sizes: the runs
\* checked for termination are those of Spec with every output one logical
\* pixel wide.
LiveInit == Init /\ \A i \in 1..Len(comp.outs) : comp.outs[i].lw = 1

LiveSpec == LiveInit /\ [][Next]_vars /\ WF_vars(Next)

TypeOK ==
    /\ pc \in {"roundtrip1", "get_xdg", "roundtrip2", "roundtrip3", "expect",
               "select", "fallback", "capture", "wait", "compose", "save",
               "exited", "panicked", "convert", "converted"}
    /\ exit_status \in {"running", "success", "failure"}
    /\ (pc = "exited") = (exit_status = "success")
    /\ (pc = "panicked") = (exit_status = "failure")

\* ------------------------------------------------------ pixel conversion
\* RowPixels with the source's byte order kept.
RECURSIVE RowPixelsNoSwap(_, _, _, _)
RowPixelsNoSwap(b, row_start, x, w) ==
    IF x >= w THEN <<>>
    ELSE LET pixel_start == row_start + x * 4
         IN  <<b[pixel_start + 1], b[pixel_start + 1 + 1], b[pixel_start + 2 + 1], 255>>
             \o RowPixelsNoSwap(b, row_start, x + 1, w)

\* lines 409-415: the pixels of one row from column x on; b is indexed
\* from 0 in the source and from 1 here.
RECURSIVE RowPixels(_, _, _, _)
RowPixels(b, row_start, x, w) ==
    IF x >= w THEN <<>>
    ELSE LET pixel_start == row_start + x * 4
             bb == b[pixel_start + 1]
             g == b[pixel_start + 1 + 1]
             r == b[pixel_start + 2 + 1]
         IN  <<r, g, bb, 255>> \o RowPixels(b, row_start, x + 1, w)

\* lines 404-417: the closure run for row y.
RowStart(y, stride) == y * stride
ConvertRowData(b, y, w, stride) == RowPixels(b, RowStart(y, stride), 0, w)

\* CollectRows joining the rows from the last to the first.
RECURSIVE CollectRowsReversed(_, _, _)
CollectRowsReversed(data, y, h) ==
    IF y >= h THEN <<>> ELSE CollectRowsReversed(data, y + 1, h) \o data[y]

\* lines 402-418: flat_map(..).collect() of an indexed parallel iterator
\* concatenates the rows by index, whatever order they were computed in.
RECURSIVE CollectRows(_, _, _)
CollectRows(data, y, h) ==
    IF y >= h THEN <<>> ELSE data[y] \o CollectRows(data, y + 1, h)

\* The frames of the conversion's specification: the bytes of a frame are
\* (seed + 3 * index) mod 256, so that no two bytes of a frame of the model
\* are equal, with any byte of ScribbleBytes written over up to MaxScribbles
\* of them.
Frame(seed, len) == [i \in 1..len |-> (seed + 3 * (i - 1)) % 256]
Seeds == {0, 100, 250}
ScribbleBytes == {0, 255}
Frames(len) ==
    {[i \in 1..len |-> IF \E k \in 1..MaxScribbles : at[k] = i
                       THEN v ELSE Frame(seed, len)[i]] :
        seed \in Seeds, v \in ScribbleBytes, at \in [1..MaxScribbles -> 0..len]}

\* The state of main at line 402, for a frame of any size of the model.
ConvInit ==
    /\ pc = "convert"
    /\ comp = [manager |-> TRUE, xdg |-> TRUE, shm |-> TRUE, outs |-> <<>>,
               late |-> "none"]
    /\ late = <<>>
    /\ wire = <<>>
    /\ screencopy_manager = TRUE
    /\ xdg_output_manager = TRUE
    /\ shm = TRUE
    /\ outputs = <<>>
    /\ buffer_done = TRUE
    /\ buffer_file = FALSE
    /\ buffer_format = "Xrgb8888"
    /\ buffer_width \in 0..MaxWidth
    /\ buffer_height \in 0..MaxHeight
    /\ buffer_stride \in (4 * buffer_width)..(4 * buffer_width + MaxPad)
    /\ buf \in Frames(buffer_height * buffer_stride)
    /\ rows = NoRows
    /\ tight_buf = <<>>
    /\ crop_details = NoCrop
    /\ filtered = <<>>
    /\ target_outputs = <<>>
    /\ cur = 0
    /\ captured_data = <<>>
    /\ composite = NoComposite
    /\ file = NoFile
    /\ exit_status = "running"
    /\ stderr = {}
    /\ requests = <<>>
    /\ terminal = "ready"
    /\ binds = <<>>
    /\ geometry = NoArg

mainState == <<pc, comp, late, wire, appVars, bufVars, mainVars, exit_status,
               stderr, requests, terminal, binds, geometry>>

\* One worker converts one row that is not yet converted.
ConvertRow ==
    /\ pc = "convert"
    /\ \E y \in (0..(buffer_height - 1)) \ rows.done :
         rows' = [done |-> rows.done \cup {y},
                  data |-> [k \in rows.done \cup {y} |->
                              IF k = y
                              THEN ConvertRowData(buf, y, buffer_width, buffer_stride)
                              ELSE rows.data[k]]]
    /\ UNCHANGED <<mainState, buf, tight_buf>>

\* collect(): every row is converted; the rows are joined in index order.
Collect ==
    /\ pc = "convert"
    /\ rows.done = 0..(buffer_height - 1)
    /\ tight_buf' = CollectRows(rows.data, 0, buffer_height)
    /\ pc' = "converted"
    /\ UNCHANGED <<comp, late, wire, appVars, bufVars, mainVars, exit_status,
                   stderr, requests, terminal, binds, geometry, buf, rows>>

ConvNext == ConvertRow \/ Collect

ConvSpec == ConvInit /\ [][ConvNext]_vars

\* -------------------------------------------------------- parse_geometry
\* Strings are sequences of characters; a field is parsed as Rust's
\* str::parse::<i32>() and ::<u32>() parse it: an optional sign ('+' or '-'
\* for i32, '+' for u32), then one digit at least and digits only.  The
\* strings of the model are too short for a value to overflow.
Digits == <<"0", "1", "2", "3", "4", "5", "6", "7", "8", "9">>
IsDigit(c) == \E d \in 1..10 : Digits[d] = c
DigitValue(c) == (CHOOSE d \in 1..10 : Digits[d] = c) - 1

\* str::split(sep): the pieces between the separators, empty ones kept.
RECURSIVE Split(_, _)
Split(str, sep) ==
    IF \A i \in 1..Len(str) : str[i] # sep
    THEN <<str>>
    ELSE LET i == SetMin({k \in 1..Len(str) : str[k] = sep})
         IN  <<SubSeq(str, 1, i - 1)>> \o Split(SubSeq(str, i + 1, Len(str)), sep)

\* The value of a run of digits after the digits read so far gave acc.
RECURSIVE ParseDigits(_, _)
ParseDigits(str, acc) ==
    IF str = <<>> THEN acc
    ELSE ParseDigits(Tail(str), acc * 10 + DigitValue(Head(str)))

AllDigits(str) == str # <<>> /\ \A i \in 1..Len(str) : IsDigit(str[i])

Err == [ok |-> FALSE, v |-> 0]
Ok(v) == [ok |-> TRUE, v |-> v]

\* ParseU32 accepting what ParseI32 accepts.
ParseU32Signed(str) ==
    IF str # <<>> /\ Head(str) = "-"
    THEN (IF AllDigits(Tail(str)) THEN Ok(0 - ParseDigits(Tail(str), 0)) ELSE Err)
    ELSE IF AllDigits(str) THEN Ok(ParseDigits(str, 0)) ELSE Err

\* lines 47-48: parse::<u32>().ok()
ParseU32(str) ==
    IF str # <<>> /\ Head(str) = "+"
    THEN (IF AllDigits(Tail(str)) THEN Ok(ParseDigits(Tail(str), 0)) ELSE Err)
    ELSE IF AllDigits(str) THEN Ok(ParseDigits(str, 0)) ELSE Err

\* lines 45-46: parse::<i32>().ok()
ParseI32(str) ==
    IF str # <<>> /\ Head(str) = "-"
    THEN (IF AllDigits(Tail(str)) THEN Ok(0 - ParseDigits(Tail(str), 0)) ELSE Err)
    ELSE ParseU32(str)

\* lines 28-50
parse_geometry(str) ==
    LET parts == Split(str, " ")
    IN  IF Len(parts) # 2 THEN NoCrop
        ELSE LET coords == Split(parts[1], ",")
                 dims == Split(parts[2], "x")
             IN  IF Len(coords) # 2 THEN NoCrop
                 ELSE IF Len(dims) # 2 THEN NoCrop
                 ELSE LET x == ParseI32(coords[1])
                          y == ParseI32(coords[2])
                          width == ParseU32(dims[1])
                          height == ParseU32(dims[2])
                      IN  IF ~x.ok THEN NoCrop
                          ELSE IF ~y.ok THEN NoCrop
                          ELSE IF ~width.ok THEN NoCrop
                          ELSE IF ~height.ok THEN NoCrop
                          ELSE [some |-> TRUE, x |-> x.v, y |-> y.v,
                                w |-> width.v, h |-> height.v]

\* lines 337-338: the region main gets from the argument.
RegionOf(arg) == IF arg.given THEN parse_geometry(arg.str) ELSE NoCrop

\* The arguments of the model: no --geometry, or any string of up to MaxLen
\* of these characters.
Chars == {"1", "-", ",", " ", "x"}
Strings(n) == [1..n -> Chars]
Arg(str) == [given |-> TRUE, str |-> str]

\* The registry of the specification of the argument: two 2x1 outputs side
\* by side, of scale 1.
ParseOutputs ==
    <<[NewOutputInfo(1) EXCEPT !.xdg_output = TRUE, !.width = 2, !.height = 1],
      [NewOutputInfo(2) EXCEPT !.xdg_output = TRUE, !.x = 2, !.width = 2,
                               !.height = 1]>>

\* The state of main at line 334, for any argument of the model.
ParseInit ==
    /\ pc = "select"
    /\ \E n \in 0..MaxLen : \E str \in Strings(n) : geometry \in {NoArg, Arg(str)}
    /\ comp = [manager |-> TRUE, xdg |-> TRUE, shm |-> TRUE,
               outs |-> <<[lw |-> 2, lh |-> 1, scale |-> 1],
                          [lw |-> 2, lh |-> 1, scale |-> 1]>>,
               late |-> "none"]
    /\ late = <<>>
    /\ wire = <<>>
    /\ screencopy_manager = TRUE
    /\ xdg_output_manager = TRUE
    /\ shm = TRUE
    /\ outputs = ParseOutputs
    /\ buffer_done = FALSE
    /\ buffer_file = FALSE
    /\ buffer_format = "Xrgb8888"
    /\ buffer_width = 0
    /\ buffer_height = 0
    /\ buffer_stride = 0
    /\ crop_details = NoCrop
    /\ filtered = <<>>
    /\ target_outputs = <<>>
    /\ cur = 0
    /\ captured_data = <<>>
    /\ composite = NoComposite
    /\ file = NoFile
    /\ exit_status = "running"
    /\ stderr = {}
    /\ requests = <<>>
    /\ terminal = "none"
    /\ binds = <<>>
    /\ buf = <<>>
    /\ rows = NoRows
    /\ tight_buf = <<>>

\* lines 337-370 with the argument parsed.
SelectParsed == SelectWith(RegionOf(geometry))

ParseNext == SelectParsed \/ Fallback

ParseSpec == ParseInit /\ [][ParseNext]_vars

\* ------------------------------------------------------ the event handlers
\* The handlers on their own: any small registry, and one or two events of
\* any kind in flight before the round-trip's callback, for known and
\* unknown handles and for any advertised version.
HandlerCompositor ==
    [manager |-> TRUE, xdg |-> TRUE, shm |-> TRUE, late |-> "none",
     outs |-> [i \in 1..(MaxOutputs + 1) |-> [lw |-> 1, lh |-> 1, scale |-> 2]]]

\* A registry entry whose fields differ from every value an event carries.
HandlerInfo(i, xdg) ==
    [output |-> i, xdg_output |-> xdg, x |-> 10 * i, y |-> 10 * i + 1,
     width |-> 10 * i + 2, height |-> 10 * i + 3, scale |-> 10 * i + 4]

HandlerRegistries ==
    {<<>>} \cup
    {<<HandlerInfo(i, a)>> : i \in 1..MaxOutputs, a \in BOOLEAN} \cup
    {<<HandlerInfo(p[1], a), HandlerInfo(p[2], b)>> :
        p \in {q \in (1..MaxOutputs) \X (1..MaxOutputs) : q[1] # q[2]},
        a \in BOOLEAN, b \in BOOLEAN}

HandlerEvents ==
    {VersionedGlobalEv(iface, MaxOutputs + 1, v) :
        iface \in {IfaceManager, IfaceXdg, IfaceOutput, IfaceShm, IfaceOther},
        v \in 1..MaxVersion}
    \cup {Ev("mode", i, "", "", 5, 6, flags) : i \in 1..(MaxOutputs + 1), flags \in 0..3}
    \cup {Ev("scale", i, "", "", 3, 0, 0) : i \in 1..(MaxOutputs + 1)}
    \cup {Ev("logical_position", i, "", "", 7, 8, 0) : i \in 1..(MaxOutputs + 1)}
    \cup {Ev("logical_size", i, "", "", 9, 9, 0) : i \in 1..(MaxOutputs + 1)}

HandlerInit ==
    /\ pc = "roundtrip3"
    /\ comp = HandlerCompositor
    /\ late = <<>>
    /\ \E e1 \in HandlerEvents :
         \/ wire = <<e1, DoneEv>>
         \/ \E e2 \in HandlerEvents :
              \* a global is advertised once
              /\ ~(e1.type = "global" /\ e2 = e1)
              /\ ~(e1.iface = IfaceOutput /\ e2.iface = IfaceOutput)
              /\ wire = <<e1, e2, DoneEv>>
    /\ outputs \in HandlerRegistries
    /\ screencopy_manager \in BOOLEAN
    /\ xdg_output_manager = TRUE
    /\ shm = TRUE
    /\ buffer_done = FALSE
    /\ buffer_file = FALSE
    /\ buffer_format = "Xrgb8888"
    /\ buffer_width = 0
    /\ buffer_height = 0
    /\ buffer_stride = 0
    /\ crop_details = NoCrop
    /\ filtered = <<>>
    /\ target_outputs = <<>>
    /\ cur = 0
    /\ captured_data = <<>>
    /\ composite = NoComposite
    /\ file = NoFile
    /\ exit_status = "running"
    /\ stderr = {}
    /\ requests = <<>>
    /\ terminal = "none"
    /\ binds = <<>>
    /\ geometry = NoArg
    /\ buf = <<>>
    /\ rows = NoRows
    /\ tight_buf = <<>>

HandlerNext == Dispatch

HandlerSpec == HandlerInit /\ [][HandlerNext]_vars

\* ------------------------------------------------------------------ claims
\* The compositor's own account of an output: its logical rectangle.
LogicalOverlap(i, g) ==
    /\ g.x < LogicalX(i) + LogicalW(i)
    /\ g.x + g.w > LogicalX(i)
    /\ g.y < LogicalY(i) + LogicalH(i)
    /\ g.y + g.h > LogicalY(i)

\* Every output was advertised with the registry and has its logical
\* position delivered.
GeometryKnown == comp.xdg /\ comp.late = "none"

\* C1: a target output whose capture ends with a 'failed' event, with or
\* without a buffer-parameters event before it, adds no image to
\* captured_data, and the run goes on to the next target's capture request
\* (or, after the last target, to compositing).
C1_FailedCaptureContributesNoImage ==
    [][(pc = "wait" /\ buffer_done /\ terminal = "failed" /\ pc' # "wait")
        => /\ captured_data' = captured_data
           /\ IF cur < Len(target_outputs)
              THEN pc' = "capture" /\ cur' = cur + 1
              ELSE pc' = "compose"]_vars

\* C2: with a parsed region, an output is collected by the filter if and
\* only if the region overlaps the output's logical rectangle on both axes
\* (half-open intervals), whatever the output's scale and mode size.
C2_TargetIffLogicalOverlap ==
    (pc = "fallback" /\ crop_details.some /\ GeometryKnown)
    => \A k \in 1..Len(outputs) :
         (\E j \in 1..Len(filtered) : filtered[j].output = outputs[k].output)
         <=> LogicalOverlap(outputs[k].output, crop_details)

\* C3: when at least one output is registered and no region was parsed or
\* the region's filter selected no output, the target set is exactly the
\* first output the compositor advertised; the target set is empty only when
\* the registry is.
TargetsChosen == pc = "capture" \/ requests # <<>>

TargetIds == {target_outputs[k].output : k \in 1..Len(target_outputs)}
LogicalMinX == SetMin({LogicalX(i) : i \in TargetIds})
LogicalMinY == SetMin({LogicalY(i) : i \in TargetIds})

\* C4: on the general path, for two target outputs of equal scale side by
\* side without overlap, for every scale, the canvas is (sum of their
\* logical widths) * scale wide and each image is placed at
\* ((x - min_x) * scale, (y - min_y) * scale).  The width is accepted under
\* either reading of an output's width: the compositor's logical width, or
\* the width the registry holds.
C4_CanvasIsLogicalBoundingBox ==
    (/\ composite.made /\ ~composite.fast /\ GeometryKnown
     /\ Len(target_outputs) = 2
     /\ Len(captured_data) = 2
     /\ target_outputs[1].scale = target_outputs[2].scale)
    => LET a == target_outputs[1].output
           b == target_outputs[2].output
       IN  /\ composite.scale = comp.outs[a].scale
           /\ composite.width \in
                {AsU32((LogicalW(a) + LogicalW(b)) * composite.scale),
                 AsU32((ModeW(a) + ModeW(b)) * composite.scale)}
           /\ \A k \in 1..Len(composite.placed) :
                LET pl == composite.placed[k]
                IN  /\ pl.dest_x = (LogicalX(pl.output) - LogicalMinX) * composite.scale
                    /\ pl.dest_y = (LogicalY(pl.output) - LogicalMinY) * composite.scale

\* C5: the rectangle cut from the canvas lies inside the canvas, for every
\* requested region: crop_x + final_width <= canvas_width and
\* crop_y + final_height <= canvas_height.
C5_CropInsideCanvas ==
    (composite.made /\ composite.cropped)
    => /\ U32Le(composite.crop_x, composite.width)
       /\ U32Le(composite.crop_w, SaturatingSub(composite.width, composite.crop_x))
       /\ U32Le(composite.crop_y, composite.height)
       /\ U32Le(composite.crop_h, SaturatingSub(composite.height, composite.crop_y))

\* C6: when the clamped crop has zero width or height, the run ends in a
\* fatal error and screenshot.png is neither created nor written.  Stated
\* for the regions of positive size whose crop is empty with its origin on
\* the canvas, which no assertion of sub_image can stop.
C6_EmptyCropIsFatal ==
    (/\ composite.cropped
     /\ crop_details.w > 0
     /\ crop_details.h > 0
     /\ ZeroArea(composite.crop_w, composite.crop_h)
     /\ SubImageInBounds(composite))
    => /\ ~file.created
       /\ pc # "exited"

\* C7: for stride >= 4 * width the converted buffer holds width * height * 4
\* bytes, row-major, and pixel (x, y) is (buf[y*stride + 4x + 2],
\* buf[y*stride + 4x + 1], buf[y*stride + 4x], 255): the fourth byte of a
\* source pixel and the row padding appear nowhere in it.
C7_ConversionIsBgrxToRgba ==
    (pc = "converted" /\ buffer_stride >= 4 * buffer_width)
    => /\ Len(tight_buf) = buffer_width * buffer_height * 4
       /\ \A y \in 0..(buffer_height - 1), x \in 0..(buffer_width - 1) :
            LET src == y * buffer_stride + 4 * x
                dst == (y * buffer_width + x) * 4
            IN  /\ tight_buf[dst + 1] = buf[src + 2 + 1]
                /\ tight_buf[dst + 2] = buf[src + 1 + 1]
                /\ tight_buf[dst + 3] = buf[src + 1]
                /\ tight_buf[dst + 4] = 255

\* A 2x2 frame with a padded stride whose first pixel's fourth byte and
\* whose first padding byte were overwritten.
C7_Witness ==
    /\ pc = "converted"
    /\ buffer_width = 2
    /\ buffer_height = 2
    /\ buffer_stride = 9
    /\ buf[4] = 0
    /\ buf[9] = 0
    /\ Len(tight_buf) = 16

\* C8: a buffer-parameters event naming any format that is not a 4-byte
\* BGR-ordered one aborts the run, and no frame of such a format is
\* converted into an image.
C8_OtherFormatsAreFatal ==
    /\ (buffer_file /\ buffer_format \notin Bgr4Formats) => pc = "panicked"
    /\ \A k \in 1..Len(captured_data) : captured_data[k].format \in Bgr4Formats

\* C9: with no output registered when the targets are selected, the run
\* ends with a failure status and a diagnostic, without a capture request
\* and without a file.
C9_NoOutputIsFailure ==
    [][(pc = "fallback" /\ outputs = <<>>)
        => /\ exit_status' = "failure"
           /\ stderr' # stderr
           /\ requests' = <<>>
           /\ ~file'.created]_vars

\* C10: a missing capability is fatal only when used: without the
\* xdg-output manager the run goes on to target selection; without the
\* screencopy manager the run fails only if it would issue a capture
\* request (an output is registered), and then before any capture request
\* and before the file is created.
C10_MissingCapabilityFatalOnlyWhenUsed ==
    [][pc = "expect"
        => /\ (screencopy_manager /\ shm) => pc' = "select"
           /\ (~screencopy_manager /\ pc' = "panicked")
                => (outputs # <<>> /\ requests = <<>> /\ ~file.created)]_vars

\* C11: at most one capture is in flight: a capture request is issued only
\* when every earlier one has had its 'ready' or 'failed' handled, the
\* requests name the target outputs one by one in target order, and a run
\* that reaches compositing has issued exactly one request per target.
C11_OneCaptureInFlight ==
    /\ [][requests' # requests
           => /\ Len(requests) < Len(target_outputs)
              /\ requests' = Append(requests,
                                    target_outputs[Len(requests) + 1].output)
              /\ requests # <<>> => (buffer_done /\ terminal \in {"ready", "failed"})
              /\ terminal' = "none"]_vars
    /\ [](pc \in {"compose", "save"} => Len(requests) = Len(target_outputs))

\* The second target's capture was requested, after the first one's
\* terminal event, and is in flight.
C11_Witness ==
    /\ pc = "wait"
    /\ Len(target_outputs) = 2
    /\ Len(requests) = 2
    /\ terminal = "none"
    /\ ~buffer_done

\* C12: with exactly one image captured and no crop region, the image
\* handed to the encoder is the converted frame itself, with its width and
\* height: no canvas is allocated, nothing is resampled, overlaid or
\* cropped, and the file written is that frame.
C12_FastPathIsIdentity ==
    (composite.made /\ Len(captured_data) = 1 /\ ~crop_details.some)
    => /\ composite.image = ImageOf("frame", 1)
       /\ composite.out_w = AsU32(captured_data[1].width)
       /\ composite.out_h = AsU32(captured_data[1].height)
       /\ composite.width = AsU32(0)
       /\ composite.height = AsU32(0)
       /\ composite.placed = <<>>
       /\ ~composite.cropped
       /\ file.written
            => /\ file.image = ImageOf("frame", 1)
               /\ file.width = AsU32(captured_data[1].width)
               /\ file.height = AsU32(captured_data[1].height)

\* A 2x2 frame of a scale-2 output, written as it is (the general path
\* would have put it on a 4x4 canvas).
C12_Witness ==
    /\ pc = "exited"
    /\ file.written
    /\ ~crop_details.some
    /\ Len(captured_data) = 1
    /\ captured_data[1].info.scale = 2
    /\ file.width = AsU32(2)

\* The strings "X,Y WxH" read positionally: a comma at i, a space at j and
\* an 'x' at k, with numerals between them.
Unsigned(str) == str # <<>> /\ \A i \in 1..Len(str) : str[i] \in Range(Digits)
Signed(str) == Unsigned(str) \/ (str # <<>> /\ Head(str) = "-" /\ Unsigned(Tail(str)))
Pow10(n) == 10 ^ n
UnsignedValue(str) ==
    SumTo([i \in 1..MaxLen + 1 |->
             IF i <= Len(str)
             THEN ((CHOOSE d \in 0..9 : Digits[d + 1] = str[i]) * Pow10(Len(str) - i))
             ELSE 0], Len(str))
SignedValue(str) ==
    IF Head(str) = "-" THEN 0 - UnsignedValue(Tail(str)) ELSE UnsignedValue(str)
FormAt(str, i, j, k) ==
    /\ str[i] = "," /\ str[j] = " " /\ str[k] = "x"
    /\ Signed(SubSeq(str, 1, i - 1))
    /\ Signed(SubSeq(str, i + 1, j - 1))
    /\ Unsigned(SubSeq(str, j + 1, k - 1))
    /\ Unsigned(SubSeq(str, k + 1, Len(str)))
RegionAt(str, i, j, k) ==
    [some |-> TRUE,
     x |-> SignedValue(SubSeq(str, 1, i - 1)),
     y |-> SignedValue(SubSeq(str, i + 1, j - 1)),
     w |-> UnsignedValue(SubSeq(str, j + 1, k - 1)),
     h |-> UnsignedValue(SubSeq(str, k + 1, Len(str)))]
At(str, c) == {i \in 1..Len(str) : str[i] = c}
Positions(str) ==
    {p \in At(str, ",") \X At(str, " ") \X At(str, "x") :
        p[1] < p[2] /\ p[2] < p[3] /\ FormAt(str, p[1], p[2], p[3])}

\* C13: parse_geometry gives (X, Y, W, H) exactly for the strings
\* "X,Y WxH" of signed X, Y and unsigned W, H, and gives absent for every
\* other string, never panicking; with the region absent the run is the one
\* of a run without the argument: no crop, and the first output as target.
C13_ParseGeometryForm ==
    (geometry.given /\ pc \in {"fallback", "capture"})
    => /\ crop_details.some <=> Positions(geometry.str) # {}
       /\ \A p \in Positions(geometry.str) :
            crop_details = RegionAt(geometry.str, p[1], p[2], p[3])
       /\ (~crop_details.some /\ pc = "capture")
            => /\ crop_details = NoCrop
               /\ filtered = <<>>
               /\ target_outputs = <<outputs[1]>>
               /\ target_outputs = WithFallback(<<>>, outputs)

\* "-1,1 11x1" is parsed, and "1,1 1x" is absent with the first output as
\* target.
C13_Witness ==
    \/ /\ pc = "capture"
       /\ geometry.str = <<"-", "1", ",", "1", " ", "1", "x", "1">>
       /\ crop_details = [some |-> TRUE, x |-> 0 - 1, y |-> 1, w |-> 1, h |-> 1]
    \/ /\ pc = "capture"
       /\ geometry.str = <<"1", ",", "1", " ", "1", "x">>
       /\ ~crop_details.some

\* C14: an image of a scale-1 output on a canvas of composite scale 2 is
\* overlaid at twice its width and height, pixel (i, j) of it being source
\* pixel (i div 2, j div 2); whenever the scales differ the overlaid size is
\* the captured size * composite scale / native scale, rounded to nearest.
C14_NearestNeighbourDoubling ==
    (composite.made /\ ~composite.fast)
    => \A k \in 1..Len(composite.placed) :
         LET pl == composite.placed[k]
             img == captured_data[k]
             native == img.info.scale
         IN  /\ (native = 1 /\ composite.scale = 2)
                  => /\ pl.width = 2 * img.width
                     /\ pl.height = 2 * img.height
                     /\ DOMAIN pl.source =
                          (0..(2 * img.width - 1)) \X (0..(2 * img.height - 1))
                     /\ \A p \in DOMAIN pl.source :
                          pl.source[p] = <<p[1] \div 2, p[2] \div 2>>
             /\ native # composite.scale
                  => /\ 2 * native * pl.width <= 2 * img.width * composite.scale + native
                     /\ 2 * img.width * composite.scale + native < 2 * native * (pl.width + 1)
                     /\ 2 * native * pl.height <= 2 * img.height * composite.scale + native
                     /\ 2 * img.height * composite.scale + native < 2 * native * (pl.height + 1)

\* A 2x1 frame of a scale-1 output, overlaid 4x2 beside a scale-2 output.
C14_Witness ==
    /\ composite.made
    /\ composite.scale = 2
    /\ \E k \in 1..Len(composite.placed) :
         /\ captured_data[k].info.scale = 1
         /\ captured_data[k].width = 2
         /\ composite.placed[k].width = 4
         /\ composite.placed[k].height = 2

\* The version of each interface the client is written against.
FeatureLevel(iface) ==
    IF iface = IfaceOutput THEN OutputMaxVersion
    ELSE IF iface = IfaceShm THEN ShmBindVersion
    ELSE IF iface = IfaceManager THEN ManagerBindVersion
    ELSE XdgMaxVersion

\* C15: every bind of one of the four recognised interfaces asks for the
\* smaller of the advertised version and the client's feature level, and
\* so never for more than the advertised version.
C15_BindVersionIsMin ==
    \A k \in 1..Len(binds) :
        /\ binds[k].requested = Min(binds[k].advertised, FeatureLevel(binds[k].iface))
        /\ binds[k].requested <= binds[k].advertised

\* The entries an event is for: those with its wl_output handle, or, for
\* an xdg_output event, those whose xdg_output it names.
EventIsFor(e, info) ==
    /\ info.output = e.obj
    /\ e.type \in {"logical_position", "logical_size"} => info.xdg_output

\* C20: handling a mode, scale or logical-position event changes only the
\* registry entry the event is for and only the fields it carries (mode:
\* width and height, when flagged current; scale: scale; logical position:
\* x and y); the other entries and fields, the order of the entries and the
\* capture session stay as they were, and an event for a handle that is not
\* in the registry changes nothing.
C20_OutputEventsFrame ==
    [][(wire # <<>> /\ Head(wire).type \in
            {"mode", "scale", "logical_position", "logical_size"})
        => LET e == Head(wire)
           IN  /\ Len(outputs') = Len(outputs)
               /\ \A k \in 1..Len(outputs) :
                    LET old == outputs[k]
                        new == outputs'[k]
                        hit == EventIsFor(e, old)
                    IN  /\ new.output = old.output
                        /\ new.xdg_output = old.xdg_output
                        /\ new.width = IF hit /\ e.type = "mode" /\ e.c \in {1, 3}
                                       THEN e.a ELSE old.width
                        /\ new.height = IF hit /\ e.type = "mode" /\ e.c \in {1, 3}
                                        THEN e.b ELSE old.height
                        /\ new.scale = IF hit /\ e.type = "scale"
                                       THEN e.a ELSE old.scale
                        /\ new.x = IF hit /\ e.type = "logical_position"
                                   THEN e.a ELSE old.x
                        /\ new.y = IF hit /\ e.type = "logical_position"
                                   THEN e.b ELSE old.y
               /\ UNCHANGED <<screencopy_manager, xdg_output_manager, shm,
                              buffer_done, buffer_file, buffer_format,
                              buffer_width, buffer_height, buffer_stride,
                              crop_details, target_outputs, captured_data>>]_vars

\* The second entry took a current mode's size; the first entry and the
\* second's other fields are as they were.
C20_Witness ==
    /\ outputs = <<HandlerInfo(1, TRUE),
                   [HandlerInfo(2, FALSE) EXCEPT !.width = 5, !.height = 6]>>
    /\ Len(wire) = 1

\* C16: in whatever order the workers convert the rows, each row's result is
\* the conversion of that source row alone, and the collected buffer holds,
\* at row y's range, the conversion of source row y.
C16_RowOrderIndependent ==
    /\ \A y \in rows.done :
         rows.data[y] = ConvertRowData(buf, y, buffer_width, buffer_stride)
    /\ pc = "converted"
         => /\ rows.done = 0..(buffer_height - 1)
            /\ \A y \in 0..(buffer_height - 1) :
                 SubSeq(tight_buf, y * buffer_width * 4 + 1, (y + 1) * buffer_width * 4)
                   = ConvertRowData(buf, y, buffer_width, buffer_stride)

\* Two rows of different content, collected.
C16_Witness ==
    /\ pc = "converted"
    /\ buffer_height = 2
    /\ buffer_width = 1
    /\ SubSeq(tight_buf, 1, 4) # SubSeq(tight_buf, 5, 8)

\* C17: with the xdg-output manager bound, every output in the registry when
\* the targets are selected has had its xdg_output requested and, a
\* round-trip having completed since, holds the logical position the
\* compositor sent for it; also when the output or the manager was advertised
\* during the second or third round-trip.
C17_GeometryKnownAtSelection ==
    (pc = "select" /\ xdg_output_manager)
    => \A k \in 1..Len(outputs) :
         /\ outputs[k].xdg_output
         /\ outputs[k].x = LogicalX(outputs[k].output)
         /\ outputs[k].y = LogicalY(outputs[k].output)

\* C19: a frame that reaches the conversion has stride >= 4 * width,
\* whatever the buffer-parameters event said, so that every byte read lies
\* in the row being converted and below height * stride.
C19_StrideCoversRow ==
    (pc = "wait" /\ buffer_done /\ buffer_file)
    => /\ buffer_stride >= 4 * buffer_width
       /\ \A y \in 0..(buffer_height - 1), x \in 0..(buffer_width - 1) :
            /\ RowStart(y, buffer_stride) + 4 * x + 2 < buffer_height * buffer_stride
            /\ RowStart(y, buffer_stride) + 4 * x + 2 < RowStart(y + 1, buffer_stride)

\* The capture in progress was not answered with a terminal event, and no
\* event is in flight: the compositor has stopped responding.
Unanswered == pc = "wait" /\ terminal = "none" /\ wire = <<>>

Terminated == pc \in {"exited", "panicked"}

\* C18: the wait for a capture ends only after a 'ready' or 'failed' handled
\* since the capture was requested (or with the process, on a fatal error);
\* every run of a compositor that answers every capture ends, by exiting or
\* by a fatal error; a capture that is never answered blocks the run for
\* ever, with no later capture request and no file.
C18_TerminatesUnlessUnanswered ==
    /\ [][(pc = "wait" /\ pc' \notin {"wait", "panicked"})
            => (buffer_done /\ terminal \in {"ready", "failed"})]_vars
    /\ <>(Terminated \/ Unanswered)
    /\ [][~Unanswered]_vars
    /\ [](Unanswered => (~file.created /\ Len(requests) = cur))

\* The first of two captures got its buffer parameters and no answer to the
\* copy: the run is blocked before the second request.
C18_Witness ==
    /\ Unanswered
    /\ buffer_file
    /\ Len(target_outputs) = 2
    /\ requests = <<target_outputs[1].output>>

FrameEventTypes == {"buffer", "ready", "failed"}

\* The frame held by the session: the backing file and the parameters used
\* to decode it.
SessionFrame == <<buffer_file, buffer_format, buffer_width, buffer_height,
                  buffer_stride>>

\* C21: when a capture is requested the session holds no frame, is not
\* marked done, and no frame event of an earlier capture is in flight; the
\* session's frame is set only by a buffer-parameters event handled during
\* the wait of the capture in progress (and taken when that wait has
\* ended); so every converted image has the size of the frame the
\* compositor sent for its own output, between that output's request and
\* the end of its wait.
C21_FrameBelongsToItsCapture ==
    /\ [][requests' # requests
            => /\ ~buffer_file' /\ ~buffer_done'
               /\ \A j \in 1..Len(wire) : wire[j].type \notin FrameEventTypes]_vars
    /\ [][(SessionFrame' # SessionFrame /\ requests' = requests)
            => /\ pc = "wait"
               /\ \/ /\ ~buffer_done
                     /\ wire # <<>> /\ Head(wire).type = "buffer"
                     /\ buffer_file'
                     /\ Len(captured_data) < Len(requests)
                  \/ /\ buffer_done
                     /\ buffer_file /\ ~buffer_file'
                     /\ pc' # "wait"]_vars
    /\ [][captured_data' # captured_data
            => /\ pc = "wait" /\ buffer_done /\ buffer_file
               /\ captured_data' = Append(captured_data, CapturedImage(target_outputs[cur]))
               /\ requests[Len(requests)] = target_outputs[cur].output]_vars
    /\ [](\A k \in 1..Len(captured_data) :
            /\ captured_data[k].width = ModeW(captured_data[k].info.output)
            /\ captured_data[k].height = ModeH(captured_data[k].info.output))

\* Two outputs with frames of different sizes were captured one after the
\* other, and each image was pushed.
C21_Witness ==
    /\ Len(captured_data) = 2
    /\ Len(requests) = 2
    /\ captured_data[1].width # captured_data[2].width

====
